---- MODULE Spec2Model ----
(***************************************************************************)
(* AI-Calendar backend (src/backend/app.py, src/backend/api/chatgpt.py,    *)
(* src/backend/supabase_client.py).                                        *)
(*                                                                         *)
(* State: the process-wide list `events` (local cache, mirrored to         *)
(* events.json after every change), the remote "events" table, and the     *)
(* request / response / remote-call log of the last handled request.       *)
(* One action per route handler; every remote call has a nondeterministic  *)
(* outcome (rows returned, no rows returned, exception).                   *)
(***************************************************************************)
EXTENDS Integers, Sequences, FiniteSets, TLC

\* ------------------------------------------------------------------ bounds
MaxOps == 2         \* requests handled in one behaviour
NumWorkers == 2     \* worker threads of the server handling requests at once
NumDays == 2        \* calendar days 1..NumDays
TicksPerDay == 2    \* distinct instants within one calendar day

\* --------------------------------------------------------- absent values
Absent == -1        \* a missing dict key / None for ids and timestamps
NoTitle == << >>    \* a missing or None title
NoUser == "none"    \* a missing user_id / user_email

\* --------------------------------------------------------------- strings
\* A title is a tuple of characters; upper-case letters are distinct
\* characters that str.lower() maps to their lower-case form.
LowerChar(c) == IF c = "S" THEN "s" ELSE IF c = "M" THEN "m" ELSE c

Lower(s) == [i \in DOMAIN s |-> LowerChar(s[i])]

IsSubstr(k, s) ==
    \E i \in 0..(Len(s) - Len(k)) : SubSeq(s, i + 1, i + Len(k)) = k

\* PostgREST ilike "%hint%": case-insensitive containment.
ILike(title, hint) == IsSubstr(Lower(hint), Lower(title))

\* str.split(): the maximal runs of non-blank characters, in order.
RECURSIVE Split(_)
Split(s) ==
    IF s = << >> THEN << >>
    ELSE IF Head(s) = " " THEN Split(Tail(s))
    ELSE LET rest == Split(Tail(s))
         IN  IF Len(s) > 1 /\ s[2] # " "
             THEN << << Head(s) >> \o Head(rest) >> \o Tail(rest)
             ELSE << << Head(s) >> >> \o rest

\* Titles callers store, and title hints the language model extracts.
Titles == { <<"S", " ", "m">>, <<"m">> }
Hints == { <<"s">>, <<"m">> }

\* ------------------------------------------------------------ timestamps
\* An ISO timestamp "YYYY-MM-DDThh:mm:ss" is the integer day*TicksPerDay+tod.
Days == 1..NumDays
Times == { d * TicksPerDay + t : d \in Days, t \in 0..(TicksPerDay - 1) }
DatePart(t) == t \div TicksPerDay
DayStart(d) == d * TicksPerDay
DayEnd(d) == d * TicksPerDay + (TicksPerDay - 1)

\* Schedules offered to the handlers: one whole day each.
Schedules == { << DayStart(d), DayEnd(d) >> : d \in Days }

\* Request bodies: a title and a schedule, or a body that lacks fields.
Payloads ==
    { << <<"S", " ", "m">>, << DayStart(1), DayEnd(1) >> >>,
      << <<"m">>, << DayStart(NumDays), DayEnd(NumDays) >> >>,
      << NoTitle, << DayStart(1), DayEnd(1) >> >>,
      << <<"m">>, << DayStart(1), Absent >> >> }

Users == { "u1", "u2" }

\* ---------------------------------------------------------------- events
\* One record shape for a local event dict and a remote row; a key the
\* dict does not have holds the absent value of its type.
Ev(id, title, start, end, user, email) ==
    [ id |-> id, title |-> title, start |-> start, end |-> end,
      user_id |-> user, user_email |-> email,
      isDeleted |-> FALSE, isRescheduled |-> FALSE,
      rescheduledFrom |-> Absent ]

NoEvent == Ev(Absent, NoTitle, Absent, Absent, NoUser, NoUser)

\* clean_event_*: the columns sent to the remote table on insert.
CleanEvent(e) == Ev(e.id, e.title, e.start, e.end, e.user_id, e.user_email)

\* local_event in get_events_route: the refresh copies is_deleted and
\* is_rescheduled but not rescheduled_from.
LocalFromRow(r) ==
    [ Ev(r.id, r.title, r.start, r.end, r.user_id, r.user_email)
        EXCEPT !.isDeleted = r.isDeleted, !.isRescheduled = r.isRescheduled ]

\* local_events_cache: one converted event per returned row, in order.
LocalEventsCache(rows) == [ i \in DOMAIN rows |-> LocalFromRow(rows[i]) ]

Ids(s) == { s[i].id : i \in DOMAIN s }

\* required_fields check: the names of the keys the dict lacks.
MissingFields(e) ==
    {f \in {"id"} : e.id = Absent}
        \cup {f \in {"title"} : e.title = NoTitle}
        \cup {f \in {"start"} : e.start = Absent}
        \cup {f \in {"end"} : e.end = Absent}
        \cup {f \in {"user_id"} : e.user_id = NoUser}
        \cup {f \in {"user_email"} : e.user_email = NoUser}

\* Keyword scoring of the reschedule lookup: the number of hint words
\* that occur in the lower-cased stored title.
Score(title, kws) ==
    Cardinality({ i \in DOMAIN kws : IsSubstr(kws[i], Lower(title)) })

\* The scan over the candidates: a candidate replaces the best one only
\* with a strictly greater score.  Returns the index of the best candidate
\* in rows, 0 when no candidate scored above 0.
RECURSIVE ScanBest_LastWins(_, _, _, _, _)
ScanBest_LastWins(rows, kws, i, best, bestScore) ==
    IF i > Len(rows) THEN best
    ELSE IF rows[i].title # NoTitle /\ Score(rows[i].title, kws) >= bestScore
         THEN ScanBest_LastWins(rows, kws, i + 1, i, Score(rows[i].title, kws))
         ELSE ScanBest_LastWins(rows, kws, i + 1, best, bestScore)

RECURSIVE ScanBest(_, _, _, _, _)
ScanBest(rows, kws, i, best, bestScore) ==
    IF i > Len(rows) THEN best
    ELSE IF rows[i].title # NoTitle /\ Score(rows[i].title, kws) > bestScore
         THEN ScanBest(rows, kws, i + 1, i, Score(rows[i].title, kws))
         ELSE ScanBest(rows, kws, i + 1, best, bestScore)

BestMatch_DateOnlyFallback(rows, hint) ==
    IF ScanBest(rows, Split(Lower(hint)), 1, 0, 0) = 0 /\ rows # << >>
    THEN 1
    ELSE ScanBest(rows, Split(Lower(hint)), 1, 0, 0)

\* found_event_rs_match: the best candidate, none when every score is 0.
BestMatch(rows, hint) == ScanBest(rows, Split(Lower(hint)), 1, 0, 0)

\* ---------------------------------------------------------------- state
VARIABLES
    configured,   \* supabase_client.supabase is not None
    remote,       \* rows of the remote "events" table, in table order
    events,       \* app.events
    nextId,       \* the next value uuid.uuid4() hands out
    req,          \* the request handled last
    resp,         \* its response
    calls,        \* remote calls it issued, in order
    live,         \* ids created through a create request and not deleted since
    gone,         \* ids whose delete succeeded and that were not created again
    ops,          \* requests handled so far
    conversation_history,   \* chatgpt.conversation_history
    last_mentioned_events,  \* chatgpt.last_mentioned_events (the events' ids)
    llm_calls,    \* calls of client.chat.completions.create by the last request
    threads       \* the requests being handled concurrently, by worker thread

vars == << configured, remote, events, nextId, req, resp, calls, live, gone, ops,
           conversation_history, last_mentioned_events, llm_calls, threads >>

\* ------------------------------------------------- requests and responses
NoMsg == [ kind |-> "none", title |-> NoTitle, fields |-> {} ]
Msg(kind, title, fields) == [ kind |-> kind, title |-> title, fields |-> fields ]

\* The message the language model wrote; the handler passes it through.
LlmMsg == Msg("llm", NoTitle, {})

Req(op, action, ev, orig, user, email) ==
    [ op |-> op, action |-> action, event |-> ev, originalStart |-> orig,
      user |-> user, email |-> email ]

Resp(status, msg, ev, list, target, newId) ==
    [ status |-> status, msg |-> msg, event |-> ev, events |-> list,
      target |-> target, newId |-> newId ]

\* An unhandled exception leaves the handler: Flask answers 500.
Raised == Resp(500, NoMsg, NoEvent, << >>, Absent, Absent)

Outcomes == { "ok", "nodata", "raise" }

\* get_supabase_client: raises when the client was never initialised,
\* otherwise probes the table (the probe's failure is swallowed) and
\* returns the client.
ProbeCalls == IF configured THEN << "probe" >> ELSE << >>

\* converted_event in load_events_from_supabase: the start-up load keeps
\* is_deleted, is_rescheduled and rescheduled_from.
LoadedFromRow(r) ==
    [ Ev(r.id, r.title, r.start, r.end, r.user_id, r.user_email)
        EXCEPT !.isDeleted = r.isDeleted, !.isRescheduled = r.isRescheduled,
               !.rescheduledFrom = r.rescheduledFrom ]

max_retries == 3       \* with_retry(func, max_retries=3, ...)

\* ------------------------------------------------- process_event_request
max_history == 20      \* len(conversation_history) > 20
max_mentioned == 3     \* len(last_mentioned_events) > 3

\* s[-n:]
Tail_n(s, n) == SubSeq(s, Len(s) - n + 1, Len(s))

\* if len(s) > n: s = s[-n:]
Truncate(s, n) == IF Len(s) > n THEN Tail_n(s, n) ELSE s

\* The two entries one parsed reply adds to the history: the user message
\* and the raw reply of turn n.
Exchange(n) == << << "user", n >>, << "assistant", n >> >>

Record_KeepsOldest(h, n) ==
    IF Len(h \o Exchange(n)) > max_history
    THEN SubSeq(h \o Exchange(n), 1, max_history)
    ELSE h \o Exchange(n)

\* conversation_history after the reply of turn n was parsed.
Record(h, n) == Truncate(h \o Exchange(n), max_history)

Mention_KeepsOldest(w, id) ==
    IF Len(w) >= max_mentioned THEN w ELSE Append(w, id)

\* last_mentioned_events after a reply that carries the event id.
Mention(w, id) == Truncate(Append(w, id), max_mentioned)

\* How process_event_request ends when it returns no event:
\*   "llm"               the reply parsed and held no event
\*   "invalid_response"  json.loads raised JSONDecodeError
\*   "llm_error"         the completion call raised
\*   "no_client"         no API key, or the client was never initialised
ReplyKinds == { "llm", "invalid_response", "llm_error", "no_client" }

LlmAttempts_Retried(kind) ==
    IF kind = "no_client" THEN 0
    ELSE IF kind = "llm_error" THEN max_retries + 1 ELSE 1

\* The completion call is made once, with no retry around it.
LlmAttempts(kind) == IF kind = "no_client" THEN 0 ELSE 1

RecordsTurn_Always(kind) == kind # "no_client"

\* The history is appended only after the reply was parsed.
RecordsTurn(kind) == kind = "llm"

\* ------------------------------------------------------- worker threads
Workers == 1..NumWorkers

\* A worker thread: where it is in its handler (pc) and the handler's
\* local variables.
Thread(pc, op, ev, user, data, kept, tmp) ==
    [ pc |-> pc, op |-> op, event |-> ev, user |-> user, data |-> data,
      kept |-> kept, tmp |-> tmp ]

Idle == Thread("idle", "none", NoEvent, NoUser, << >>, << >>, << >>)

\* Rows persisted by earlier runs of the process: a one-day event and an
\* event that starts on the same day and runs until the last day.
StoredRows ==
    << Ev(1, <<"S", " ", "m">>, DayStart(1), DayEnd(1), "u1", "e"),
       Ev(2, <<"m">>, DayStart(1), DayEnd(NumDays), "u1", "e") >>

\* Module import: `events` is loaded from the remote table, or from
\* events.json when the remote table cannot be read.
Init ==
    /\ configured \in BOOLEAN
    /\ \E n \in 0..Len(StoredRows) :
          /\ remote = IF configured THEN SubSeq(StoredRows, 1, n) ELSE << >>
          /\ events = [ i \in 1..n |-> LoadedFromRow(StoredRows[i]) ]
    /\ nextId = Len(StoredRows) + 1
    /\ req = Req("init", "none", NoEvent, Absent, NoUser, NoUser)
    /\ resp = Resp(200, NoMsg, NoEvent, << >>, Absent, Absent)
    /\ calls = << >>
    /\ live = {}
    /\ gone = {}
    /\ ops = 0
    /\ conversation_history = << >>
    /\ last_mentioned_events = << >>
    /\ llm_calls = 0
    /\ threads = [ t \in Workers |-> Idle ]

\* One request handled from start to end, no other request in between.
Tick == ops < MaxOps /\ ops' = ops + 1 /\ UNCHANGED threads

\* A route that never calls process_event_request.
NoChat == llm_calls' = 0 /\ UNCHANGED << conversation_history, last_mentioned_events >>

\* ------------------------------------------------------------ with_retry
\* with_retry(func): func is called until it returns; after the call that
\* makes retries exceed max_retries the last exception is raised.  `fails`
\* is the number of leading calls that raise.
RetrySucceeds_OneMore(fails) == fails <= max_retries + 1

RetrySucceeds(fails) == fails <= max_retries
RetryAttempts(fails) == IF fails <= max_retries THEN fails + 1 ELSE max_retries + 1

RECURSIVE Repeat(_, _)
Repeat(x, n) == IF n = 0 THEN << >> ELSE << x >> \o Repeat(x, n - 1)

\* The calls of func that with_retry makes: the ones that raised, then the
\* one that returned, if any.
RetryCalls(fails) ==
    IF RetrySucceeds(fails)
    THEN Repeat("select_raised", fails) \o << "select" >>
    ELSE Repeat("select_raised", RetryAttempts(fails))

\* ------------------------------------------------------- GET /api/events
OwnedBy_OrUnowned(u, e) == e.user_id = u \/ e.user_id = NoUser

\* .eq("user_id", user_id_param) and event_item.get("user_id") == user_id_param
OwnedBy(u, e) == e.user_id = u
OtherUsers_None(u, e) == FALSE

\* event_item.get("user_id") and event_item.get("user_id") != user_id_param
OtherUsers(u, e) == e.user_id # NoUser /\ e.user_id # u

GetEvents(u, fails) ==
    LET data == IF u # NoUser
                THEN SelectSeq(remote, LAMBDA r : OwnedBy(u, r))
                ELSE remote
        cache == LocalEventsCache(data)
        fresh == configured /\ RetrySucceeds(fails) /\ data # << >>
        refreshed == IF u # NoUser
                     THEN SelectSeq(events, LAMBDA e : OtherUsers(u, e)) \o cache
                     ELSE cache
        fallback == IF u # NoUser
                    THEN SelectSeq(events, LAMBDA e : OwnedBy(u, e))
                    ELSE events
    IN  /\ Tick
        /\ ~configured => fails = 0
        /\ req' = Req("list", "none", NoEvent, Absent, u, NoUser)
        /\ calls' = ProbeCalls \o
                      (IF configured THEN RetryCalls(fails)
                                     ELSE << >>)
        /\ events' = IF fresh THEN refreshed ELSE events
        /\ resp' = Resp(200, NoMsg, NoEvent, IF fresh THEN data ELSE fallback,
                        Absent, Absent)
        /\ NoChat
        /\ UNCHANGED << configured, remote, nextId, live, gone >>

\* ------------------------------------------------------ POST /api/events
LocalAfterCreate_OnlyOnFallback(stored, event_data) ==
    IF stored THEN events ELSE Append(events, event_data)

\* The local list when the handler returns: events.append(event_data) next
\* to the return of the stored row, or the one of the fallback below the
\* try that every other path reaches.
LocalAfterCreate(stored, event_data) ==
    IF stored THEN Append(events, event_data) ELSE Append(events, event_data)

CreateEvent(suppliedId, title, sched, user, out) ==
    LET id == IF suppliedId = Absent THEN nextId ELSE suppliedId
        \* inside the try, after get_supabase_client returned: a missing
        \* user_email is defaulted when user_id is present
        email == IF configured /\ user # NoUser THEN "dflt" ELSE NoUser
        event_data == Ev(id, title, sched[1], sched[2], user, email)
        attempted == configured /\ MissingFields(event_data) = {}
        stored == attempted /\ out = "ok"
    IN  /\ Tick
        /\ ~attempted => out = "raise"
        \* the remote table rejects an id it already holds
        /\ stored => id \notin Ids(remote)
        /\ req' = Req("create", "none", event_data, Absent, user, email)
        /\ calls' = ProbeCalls \o (IF attempted THEN << "insert" >> ELSE << >>)
        /\ nextId' = IF suppliedId = Absent THEN nextId + 1 ELSE nextId
        /\ remote' = IF stored THEN Append(remote, CleanEvent(event_data))
                     ELSE remote
        /\ events' = LocalAfterCreate(stored, event_data)
        /\ resp' = Resp(201, NoMsg,
                        IF stored THEN CleanEvent(event_data) ELSE event_data,
                        << >>, Absent, Absent)
        /\ live' = live \cup {id}
        /\ gone' = gone \ {id}
        /\ NoChat
        /\ UNCHANGED configured

\* ---------------------------------------------- DELETE /api/events/<id>
\* The index of the first element of s with the given id, 0 if none.
FirstWithId(s, id) ==
    IF \E i \in DOMAIN s : s[i].id = id
    THEN CHOOSE i \in DOMAIN s :
            s[i].id = id /\ \A j \in 1..(i - 1) : s[j].id # id
    ELSE 0

RemoveAt(s, i) == SubSeq(s, 1, i - 1) \o SubSeq(s, i + 1, Len(s))

DeleteEvent(id, out) ==
    LET executed == configured /\ out = "ok"
        deleted_from_supabase == executed /\ id \in Ids(remote)
        i == FirstWithId(events, id)
        found == i # 0 \/ deleted_from_supabase
    IN  /\ Tick
        /\ ~configured => out = "raise"
        /\ out # "nodata"
        /\ req' = Req("delete", "none", [NoEvent EXCEPT !.id = id], Absent,
                      NoUser, NoUser)
        /\ calls' = ProbeCalls \o (IF configured THEN << "delete" >> ELSE << >>)
        /\ remote' = IF executed
                     THEN SelectSeq(remote, LAMBDA r : r.id # id)
                     ELSE remote
        /\ events' = IF i # 0 THEN RemoveAt(events, i) ELSE events
        /\ resp' = IF found
                   THEN Resp(200, Msg("deleted", NoTitle, {}),
                             IF i # 0 THEN events[i]
                                      ELSE [NoEvent EXCEPT !.id = id],
                             << >>, Absent, Absent)
                   ELSE Resp(404, Msg("not_found_id", NoTitle, {}), NoEvent,
                             << >>, Absent, Absent)
        /\ live' = IF found THEN live \ {id} ELSE live
        /\ gone' = IF found THEN gone \cup {id} ELSE gone
        /\ NoChat
        /\ UNCHANGED << configured, nextId >>

\* ------------------------------------------------- PUT /api/events/<id>
UpdateRow_KeepsSchedule(r, e) ==
    [ r EXCEPT !.title = e.title, !.user_id = e.user_id,
               !.user_email = e.user_email ]

\* clean_event_put: the columns an update overwrites in the remote row.
UpdateRow(r, e) ==
    [ r EXCEPT !.title = e.title, !.start = e.start, !.end = e.end,
               !.user_id = e.user_id, !.user_email = e.user_email ]

UpdateEvent(id, title, sched, user, out) ==
    LET email == IF configured /\ user # NoUser THEN "dflt" ELSE NoUser
        updated_event_data == Ev(id, title, sched[1], sched[2], user, email)
        attempted == configured /\ MissingFields(updated_event_data) = {}
        executed == attempted /\ out = "ok"
        updated_in_supabase_flag == executed /\ id \in Ids(remote)
        i == FirstWithId(events, id)
        found == i # 0 \/ updated_in_supabase_flag
    IN  /\ Tick
        /\ ~attempted => out = "raise"
        /\ out # "nodata"
        /\ req' = Req("update", "none", updated_event_data, Absent, user, email)
        /\ calls' = ProbeCalls \o (IF attempted THEN << "update" >> ELSE << >>)
        /\ remote' = IF executed
                     THEN [ k \in DOMAIN remote |->
                              IF remote[k].id = id
                              THEN UpdateRow(remote[k], updated_event_data)
                              ELSE remote[k] ]
                     ELSE remote
        /\ events' = IF i # 0 THEN [events EXCEPT ![i] = updated_event_data]
                     ELSE events
        /\ resp' = IF found
                   THEN Resp(200, Msg("updated", NoTitle, {}),
                             updated_event_data, << >>, Absent, Absent)
                   ELSE Resp(404, Msg("not_found_id", NoTitle, {}), NoEvent,
                             << >>, Absent, Absent)
        /\ NoChat
        /\ UNCHANGED << configured, nextId, live, gone >>

\* ------------------------------------------------------- POST /api/chat
\* The id the handler reports for a deleted event: the string "deleted".
DeletedId == -2

FallsBackToLocal_AnyAction(action, success) == ~success

\* The local list takes the event only when a create did not reach the
\* remote table.
FallsBackToLocal(action, success) == ~success /\ action = "create"

\* What one action branch of chat_route leaves behind.
Branch(rem, msg, ev, success, raised, target, newId, issued) ==
    [ remote |-> rem, msg |-> msg, event |-> ev, success |-> success,
      raised |-> raised, target |-> target, newId |-> newId,
      calls |-> issued ]

\* action == "create"
ChatCreate(ed, out) ==
    LET missing_fields_chat == MissingFields(ed)
    IN  IF missing_fields_chat # {}
        THEN Branch(remote, Msg("missing_create", NoTitle, missing_fields_chat),
                    ed, FALSE, FALSE, Absent, Absent, << >>)
        ELSE IF out = "ok"
        THEN Branch(Append(remote, CleanEvent(ed)), LlmMsg, CleanEvent(ed),
                    TRUE, FALSE, Absent, Absent, << "insert" >>)
        ELSE IF out = "nodata"
        THEN Branch(remote, Msg("db_error", NoTitle, {}), ed, FALSE, FALSE,
                    Absent, Absent, << "insert" >>)
        ELSE Branch(remote, NoMsg, ed, FALSE, TRUE, Absent, Absent,
                    << "insert" >>)

DeleteMatches_Overlap(r, user, title, start) ==
    /\ r.user_id = user
    /\ ILike(r.title, title)
    /\ start # Absent =>
          /\ r.start <= DayEnd(DatePart(start))
          /\ r.end >= DayStart(DatePart(start))

\* query_delete: rows of the caller whose title contains the hint and, when
\* the intent carries a start, whose start lies on that calendar day.
DeleteMatches(r, user, title, start) ==
    /\ r.user_id = user
    /\ ILike(r.title, title)
    /\ start # Absent =>
          /\ r.start >= DayStart(DatePart(start))
          /\ r.start <= DayEnd(DatePart(start))

\* action == "delete"
ChatDelete(ed, user, out) ==
    IF ed.title = NoTitle
    THEN Branch(remote, Msg("specify_title", NoTitle, {}), ed, FALSE, FALSE,
                Absent, Absent, << >>)
    ELSE IF out = "raise"
    THEN Branch(remote, NoMsg, ed, FALSE, TRUE, Absent, Absent, << "delete" >>)
    ELSE LET hit(r) == DeleteMatches(r, user, ed.title, ed.start)
             miss(r) == ~DeleteMatches(r, user, ed.title, ed.start)
         IN  IF SelectSeq(remote, hit) # << >>
             THEN Branch(SelectSeq(remote, miss), LlmMsg,
                         [NoEvent EXCEPT !.id = DeletedId, !.title = ed.title],
                         TRUE, FALSE, Absent, Absent, << "delete" >>)
             ELSE Branch(remote, Msg("not_found", ed.title, {}), ed, FALSE,
                         FALSE, Absent, Absent, << "delete" >>)

\* missing_fields_rs: the names of the falsy reschedule fields.
MissingReschedule(ed, orig) ==
    {f \in {"title"} : ed.title = NoTitle}
        \cup {f \in {"originalStart"} : orig = Absent}
        \cup {f \in {"start"} : ed.start = Absent}
        \cup {f \in {"end"} : ed.end = Absent}

OnDay_AnyDay(r, user, d) == r.user_id = user /\ ~r.isDeleted

\* find_date_query_rs: live rows of the caller that overlap the day.
OnDay(r, user, d) ==
    /\ r.user_id = user
    /\ ~r.isDeleted
    /\ r.start <= DayEnd(d)
    /\ r.end >= DayStart(d)

\* update({"is_deleted": True, "is_rescheduled": True}).eq("id", id)
Tombstone(rem, id) ==
    [ k \in DOMAIN rem |->
        IF rem[k].id = id
        THEN [ rem[k] EXCEPT !.isDeleted = TRUE, !.isRescheduled = TRUE ]
        ELSE rem[k] ]

Replacement_HintTitle(newId, found, ed, user, email) ==
    [ Ev(newId, ed.title, ed.start, ed.end, user, email)
        EXCEPT !.rescheduledFrom = found.id ]

Aborts_Swallowed(out) == FALSE

\* except Exception as e_update_rs_orig: ... raise Exception(...): a raising
\* tombstone update ends the branch; an update that returns no row is only
\* logged.
Aborts(out) == out = "raise"

\* new_event_object_rs
Replacement(newId, found, ed, user, email) ==
    [ Ev(newId, found.title, ed.start, ed.end, user, email)
        EXCEPT !.rescheduledFrom = found.id ]

\* action == "reschedule"; out1, out2, out3 are the outcomes of the
\* select, the tombstone update and the insert.
ChatReschedule(ed, orig, user, email, newId, out1, out2, out3) ==
    LET missing_fields_rs == MissingReschedule(ed, orig)
        d == DatePart(orig)
        date_events_rs_data ==
            IF out1 = "ok"
            THEN SelectSeq(remote, LAMBDA r : OnDay(r, user, d))
            ELSE << >>
        best == BestMatch(date_events_rs_data, ed.title)
        found == date_events_rs_data[best]
        failed == Msg("reschedule_error", NoTitle, {})
        \* the select whose exception the handler swallows is logged as such
        select == IF out1 = "raise" THEN "select_raised" ELSE "select"
        update == IF out2 = "raise" THEN "update_raised" ELSE "update"
        \* an update that returns no row changed no row
        marked == IF out2 = "ok" THEN Tombstone(remote, found.id) ELSE remote
    IN  IF missing_fields_rs # {}
        THEN Branch(remote, Msg("missing_reschedule", NoTitle, missing_fields_rs),
                    ed, FALSE, FALSE, Absent, Absent, << >>)
        ELSE IF best = 0
        THEN Branch(remote, Msg("not_found", ed.title, {}), ed, FALSE, FALSE,
                    Absent, Absent, << select >>)
        ELSE IF Aborts(out2)
        THEN Branch(remote, failed, ed, FALSE, FALSE, found.id, Absent,
                    << "select", update >>)
        ELSE IF out3 # "ok"
        THEN Branch(marked, failed, ed, FALSE, FALSE,
                    found.id, Absent, << "select", update, "insert" >>)
        ELSE Branch(Append(marked, Replacement(newId, found, ed, user, email)),
                    Msg("rescheduled", found.title, {}),
                    [ ed EXCEPT !.id = newId, !.title = found.title ],
                    TRUE, FALSE, found.id, newId,
                    << "select", update, "insert" >>)

\* process_event_request returned no event: the turn only relays a message.
ChatNoEvent(kind, user, email) ==
    /\ Tick
    /\ req' = Req("chat", "none", NoEvent, Absent, user, email)
    /\ resp' = Resp(200, Msg(kind, NoTitle, {}), NoEvent, << >>, Absent, Absent)
    /\ calls' = << >>
    /\ llm_calls' = LlmAttempts(kind)
    /\ conversation_history' = IF RecordsTurn(kind)
                               THEN Record(conversation_history, ops + 1)
                               ELSE conversation_history
    /\ UNCHANGED << configured, remote, events, nextId, live, gone,
                    last_mentioned_events >>

\* The part of chat_route every action shares.  process_event_request
\* returned the event ed (with a fresh id and the action), chat_route added
\* the caller, asked for the remote client (which raises when there is
\* none) and ran the branch b of the action.
ChatApply(action, ed, orig, user, email, b) ==
    LET raised == ~configured \/ b.raised
        removed == Ids(remote) \ Ids(b.remote)
    IN  /\ Tick
        /\ req' = Req("chat", action, ed, orig, user, email)
        /\ nextId' = IF ~raised /\ b.target # Absent THEN nextId + 2
                     ELSE nextId + 1
        /\ calls' = IF configured THEN << "probe" >> \o b.calls ELSE << >>
        /\ remote' = IF configured THEN b.remote ELSE remote
        /\ events' = IF ~raised /\ FallsBackToLocal(action, b.success)
                        /\ \A i \in DOMAIN events : events[i] # b.event
                     THEN Append(events, b.event)
                     ELSE events
        /\ resp' = IF raised THEN Raised
                   ELSE Resp(200, b.msg, b.event, << >>, b.target, b.newId)
        /\ live' = IF raised THEN live
                   ELSE IF action = "create" /\ b.success
                   THEN live \cup {ed.id}
                   ELSE (live \ removed) \ {b.target}
        /\ gone' = IF raised THEN gone
                   ELSE IF action = "delete" THEN gone \cup removed
                   ELSE gone
        \* process_event_request returned before any of the above ran
        /\ llm_calls' = 1
        /\ last_mentioned_events' = Mention(last_mentioned_events, ed.id)
        /\ conversation_history' = Record(conversation_history, ops + 1)
        /\ UNCHANGED configured

ChatCreateTurn(title, sched, user, email, out) ==
    LET ed == Ev(nextId, title, sched[1], sched[2], user, email)
    IN  /\ ops < MaxOps
        /\ (~configured \/ MissingFields(ed) # {}) => out = "raise"
        /\ ChatApply("create", ed, Absent, user, email, ChatCreate(ed, out))

ChatDeleteTurn(title, start, user, email, out) ==
    LET ed == Ev(nextId, title, start, Absent, user, email)
    IN  /\ ops < MaxOps
        /\ out # "nodata"
        /\ (~configured \/ title = NoTitle) => out = "raise"
        /\ ChatApply("delete", ed, Absent, user, email, ChatDelete(ed, user, out))

ChatRescheduleTurn(title, sched, orig, user, email, out1, out2, out3) ==
    LET ed == Ev(nextId, title, sched[1], sched[2], user, email)
        b == ChatReschedule(ed, orig, user, email, nextId + 1, out1, out2, out3)
    IN  /\ ops < MaxOps
        /\ out1 # "nodata"
        /\ ~configured => out1 = "raise"
        /\ (~configured \/ Len(b.calls) < 3) => out3 = "raise"
        /\ (~configured \/ Len(b.calls) < 2) => out2 = "raise"
        /\ ChatApply("reschedule", ed, orig, user, email, b)

\* Any other action value (None): nothing is dispatched.
ChatOtherTurn(title, sched, user, email) ==
    LET ed == Ev(nextId, title, sched[1], sched[2], user, email)
    IN  ChatApply("none", ed, Absent, user, email,
                  Branch(remote, LlmMsg, ed, FALSE, FALSE, Absent, Absent, << >>))

\* ------------------------------------------------------ GET /api/health
\* supabase_status_health: "error" when get_supabase_client or the count
\* query raised, "connected" otherwise.
supabase_status_health(out) ==
    IF ~configured \/ out = "raise" THEN "error" ELSE "connected"

HealthResponse_Propagates(out) ==
    IF ~configured \/ out = "raise"
    THEN Raised
    ELSE Resp(200, Msg("ok", NoTitle, {supabase_status_health(out)}), NoEvent,
              << >>, Absent, Absent)

\* response_data_health: "status" is always "ok".
HealthResponse(out) ==
    Resp(200, Msg("ok", NoTitle, {supabase_status_health(out)}), NoEvent,
         << >>, Absent, Absent)

health_check_route(out) ==
    /\ Tick
    /\ ~configured => out = "raise"
    /\ out # "nodata"
    /\ req' = Req("health", "none", NoEvent, Absent, NoUser, NoUser)
    /\ calls' = ProbeCalls \o (IF configured THEN << "select" >> ELSE << >>)
    /\ resp' = HealthResponse(out)
    /\ NoChat
    /\ UNCHANGED << configured, remote, events, nextId, live, gone >>

\* ------------------------------------------------------------- requests
\* Who is chatting: userId and userEmail of the request body.
Owner == << "u1", "e" >>
Anonymous == << NoUser, NoUser >>

\* POST bodies: << id, title, schedule, user_id >>.
CreateBodies ==
    { << Absent, p[1], p[2], "u1" >> : p \in Payloads }
        \cup { << Absent, <<"S", " ", "m">>, << DayStart(1), DayEnd(1) >>, "u2" >>,
               << Absent, <<"m">>, << DayStart(1), DayEnd(1) >>, NoUser >>,
               << 0, <<"S", " ", "m">>, << DayStart(1), DayEnd(1) >>, "u1" >>,
               << 0, <<"m">>, << DayStart(1), DayEnd(1) >>, NoUser >> }

\* PUT bodies: << title, schedule >>.
UpdateBodies ==
    { << <<"m">>, << DayStart(NumDays), DayEnd(NumDays) >> >>,
      << <<"m">>, << DayStart(1), Absent >> >> }

\* Chat intents the language model extracts, with the caller:
\* << title, schedule, originalStart, caller >>.
CreateIntents ==
    { << p[1], p[2], Absent, Owner >> : p \in Payloads }
        \cup { << <<"m">>, << DayStart(1), DayEnd(1) >>, Absent, Anonymous >> }

DeleteIntents ==
    { << t, << Absent, Absent >>, Absent, Owner >> : t \in Hints \cup {NoTitle} }
        \cup { << <<"m">>, << DayStart(d), Absent >>, Absent, Owner >> : d \in Days }
        \cup { << <<"m">>, << Absent, Absent >>, Absent, Anonymous >>,
               << <<"s">>, << DayStart(1), Absent >>, Absent, Owner >> }

RescheduleIntents ==
    { << t, << DayStart(NumDays), DayEnd(NumDays) >>, DayStart(1), Owner >> :
         t \in Hints }
        \cup { << <<"m">>, << DayStart(1), DayEnd(1) >>, DayStart(NumDays), Owner >>,
               << NoTitle, << DayStart(NumDays), Absent >>, DayStart(1), Owner >>,
               << <<"m">>, << DayStart(NumDays), DayEnd(NumDays) >>, Absent, Owner >>,
               << <<"m">>, << DayStart(NumDays), DayEnd(NumDays) >>, DayStart(1),
                  Anonymous >> }

Next ==
    \/ \E u \in {"u1", NoUser}, fails \in {0, 1, max_retries, max_retries + 1} :
          GetEvents(u, fails)
    \/ \E b \in CreateBodies, out \in Outcomes :
          CreateEvent(b[1], b[2], b[3], b[4], out)
    \/ \E id \in Ids(events) \cup Ids(remote) \cup {0}, out \in Outcomes :
          DeleteEvent(id, out)
    \/ \E id \in Ids(events) \cup Ids(remote) \cup {0}, b \in UpdateBodies,
          out \in Outcomes :
          UpdateEvent(id, b[1], b[2], "u1", out)
    \/ \E kind \in ReplyKinds : ChatNoEvent(kind, Owner[1], Owner[2])
    \/ \E i \in CreateIntents, out \in Outcomes :
          ChatCreateTurn(i[1], i[2], i[4][1], i[4][2], out)
    \/ \E i \in DeleteIntents, out \in Outcomes :
          ChatDeleteTurn(i[1], i[2][1], i[4][1], i[4][2], out)
    \/ \E i \in RescheduleIntents, out1, out2, out3 \in Outcomes :
          ChatRescheduleTurn(i[1], i[2], i[3], i[4][1], i[4][2], out1, out2, out3)
    \/ ChatOtherTurn(<<"m">>, << DayStart(1), DayEnd(1) >>, Owner[1], Owner[2])
    \/ \E out \in Outcomes : health_check_route(out)

Spec == Init /\ [][Next]_vars

\* A deployment whose remote client was initialised.
InitConfigured == Init /\ configured
SpecConfigured == InitConfigured /\ [][Next]_vars

\* ==================================================== concurrent requests
\* The server handles each request on its own thread (app.run), and no
\* handler takes a lock: between two accesses of a module global another
\* thread may run.  One action per access of `events`,
\* `conversation_history` or `last_mentioned_events`, and per remote call.
At(t, pc) == threads[t].pc = pc

Goto(t, pc) == threads' = [ threads EXCEPT ![t].pc = pc ]

SequentialState == << req, resp, calls, live, gone, ops, llm_calls, configured >>

\* The process has served chat turns before: both buffers are full.  The
\* history holds the exchanges of the turns -9 .. 0, oldest first.
WarmHistory ==
    [ i \in 1..max_history |->
        << IF i % 2 = 1 THEN "user" ELSE "assistant",
           ((i + 1) \div 2) - (max_history \div 2) >> ]
WarmMentions == << 101, 102, 103 >>

InitConcurrent ==
    /\ configured \in BOOLEAN
    /\ \E n \in 0..Len(StoredRows) :
          /\ remote = IF configured THEN SubSeq(StoredRows, 1, n) ELSE << >>
          /\ events = [ i \in 1..n |-> LoadedFromRow(StoredRows[i]) ]
    /\ nextId = Len(StoredRows) + 1
    /\ req = Req("init", "none", NoEvent, Absent, NoUser, NoUser)
    /\ resp = Resp(200, NoMsg, NoEvent, << >>, Absent, Absent)
    /\ calls = << >>
    /\ live = {}
    /\ gone = {}
    /\ ops = 0
    /\ \E warm \in BOOLEAN :
          /\ conversation_history = IF warm THEN WarmHistory ELSE << >>
          /\ last_mentioned_events = IF warm THEN WarmMentions ELSE << >>
    /\ llm_calls = 0
    /\ threads = [ t \in Workers |-> Idle ]

\* create_event_route: the id is drawn and the remote insert is tried ...
CreateInsert(t, user, out) ==
    LET email == IF configured /\ user # NoUser THEN "dflt" ELSE NoUser
        event_data == Ev(nextId, <<"m">>, DayStart(1), DayEnd(1), user, email)
        stored == configured /\ MissingFields(event_data) = {} /\ out = "ok"
    IN  /\ At(t, "idle")
        /\ ~configured => out = "raise"
        /\ nextId' = nextId + 1
        /\ remote' = IF stored THEN Append(remote, CleanEvent(event_data))
                     ELSE remote
        /\ threads' = [ threads EXCEPT ![t] =
                          Thread("create_append", "create", event_data, user,
                                 << >>, << >>, << >>) ]
        /\ UNCHANGED << events, conversation_history, last_mentioned_events,
                        SequentialState >>

\* ... then events.append(event_data).
CreateAppend(t) ==
    /\ At(t, "create_append")
    /\ events' = Append(events, threads[t].event)
    /\ Goto(t, "done")
    /\ UNCHANGED << remote, nextId, conversation_history, last_mentioned_events,
                    SequentialState >>

\* get_events_route: the remote read and the conversion of its rows.  With
\* no rows, or a failed read, the handler only reads `events` and returns.
RefreshFetch(t, u, out) ==
    LET data == IF u # NoUser
                THEN SelectSeq(remote, LAMBDA r : OwnedBy(u, r))
                ELSE remote
        fresh == configured /\ out = "ok" /\ data # << >>
    IN  /\ At(t, "idle")
        /\ ~configured => out = "raise"
        /\ out # "nodata"
        /\ threads' = [ threads EXCEPT ![t] =
                          Thread(IF ~fresh THEN "done"
                                 ELSE IF u # NoUser THEN "refresh_filter"
                                 ELSE "refresh_rebind",
                                 "refresh", NoEvent, u,
                                 IF fresh THEN LocalEventsCache(data) ELSE << >>,
                                 << >>, << >>) ]
        /\ UNCHANGED << remote, events, nextId, conversation_history,
                        last_mentioned_events, SequentialState >>

\* other_user_events = [e for e in events if ...]
RefreshFilter(t) ==
    /\ At(t, "refresh_filter")
    /\ threads' = [ threads EXCEPT
                      ![t].pc = "refresh_rebind",
                      ![t].kept = SelectSeq(events,
                                    LAMBDA e : OtherUsers(threads[t].user, e)) ]
    /\ UNCHANGED << remote, events, nextId, conversation_history,
                    last_mentioned_events, SequentialState >>

\* events = other_user_events + local_events_cache, or
\* events = local_events_cache
RefreshRebind(t) ==
    /\ At(t, "refresh_rebind")
    /\ events' = threads[t].kept \o threads[t].data
    /\ Goto(t, "done")
    /\ UNCHANGED << remote, nextId, conversation_history, last_mentioned_events,
                    SequentialState >>

\* process_event_request: the completion returned a reply that parses,
\* holds an event and names no action chat_route dispatches on.
ChatReply(t) ==
    /\ At(t, "idle")
    /\ nextId' = nextId + 1
    /\ threads' = [ threads EXCEPT ![t] =
                      Thread("mention_append", "chat",
                             [ NoEvent EXCEPT !.id = nextId ], NoUser,
                             << >>, << >>, << >>) ]
    /\ UNCHANGED << remote, events, conversation_history, last_mentioned_events,
                    SequentialState >>

\* last_mentioned_events.append(event)
MentionAppend(t) ==
    /\ At(t, "mention_append")
    /\ last_mentioned_events' = Append(last_mentioned_events, threads[t].event.id)
    /\ Goto(t, "mention_check")
    /\ UNCHANGED << remote, events, nextId, conversation_history, SequentialState >>

\* if len(last_mentioned_events) > 3: ... last_mentioned_events[-3:]
MentionCheck(t) ==
    /\ At(t, "mention_check")
    /\ threads' = IF Len(last_mentioned_events) > max_mentioned
                  THEN [ threads EXCEPT
                           ![t].pc = "mention_rebind",
                           ![t].tmp = Tail_n(last_mentioned_events, max_mentioned) ]
                  ELSE [ threads EXCEPT ![t].pc = "history_append_user" ]
    /\ UNCHANGED << remote, events, nextId, conversation_history,
                    last_mentioned_events, SequentialState >>

\* last_mentioned_events = ...
MentionRebind(t) ==
    /\ At(t, "mention_rebind")
    /\ last_mentioned_events' = threads[t].tmp
    /\ threads' = [ threads EXCEPT ![t].pc = "history_append_user",
                                   ![t].tmp = << >> ]
    /\ UNCHANGED << remote, events, nextId, conversation_history, SequentialState >>

\* conversation_history.append({"role": "user", ...})
HistoryAppendUser(t) ==
    /\ At(t, "history_append_user")
    /\ conversation_history' = Append(conversation_history, Exchange(t)[1])
    /\ Goto(t, "history_append_assistant")
    /\ UNCHANGED << remote, events, nextId, last_mentioned_events, SequentialState >>

\* conversation_history.append({"role": "assistant", ...})
HistoryAppendAssistant(t) ==
    /\ At(t, "history_append_assistant")
    /\ conversation_history' = Append(conversation_history, Exchange(t)[2])
    /\ Goto(t, "history_check")
    /\ UNCHANGED << remote, events, nextId, last_mentioned_events, SequentialState >>

\* if len(conversation_history) > 20: ... conversation_history[-20:]
HistoryCheck(t) ==
    /\ At(t, "history_check")
    /\ threads' = IF Len(conversation_history) > max_history
                  THEN [ threads EXCEPT
                           ![t].pc = "history_rebind",
                           ![t].tmp = Tail_n(conversation_history, max_history) ]
                  ELSE [ threads EXCEPT ![t].pc = "done" ]
    /\ UNCHANGED << remote, events, nextId, conversation_history,
                    last_mentioned_events, SequentialState >>

\* conversation_history = ...
HistoryRebind(t) ==
    /\ At(t, "history_rebind")
    /\ conversation_history' = threads[t].tmp
    /\ threads' = [ threads EXCEPT ![t].pc = "done", ![t].tmp = << >> ]
    /\ UNCHANGED << remote, events, nextId, last_mentioned_events, SequentialState >>

NextConcurrent ==
    \E t \in Workers :
        \/ \E user \in Users, out \in Outcomes : CreateInsert(t, user, out)
        \/ CreateAppend(t)
        \/ \E u \in {"u1", NoUser}, out \in Outcomes : RefreshFetch(t, u, out)
        \/ RefreshFilter(t)
        \/ RefreshRebind(t)
        \/ ChatReply(t)
        \/ MentionAppend(t)
        \/ MentionCheck(t)
        \/ MentionRebind(t)
        \/ HistoryAppendUser(t)
        \/ HistoryAppendAssistant(t)
        \/ HistoryCheck(t)
        \/ HistoryRebind(t)

SpecConcurrent == InitConcurrent /\ [][NextConcurrent]_vars

\* ============================================= a long-running conversation
\* Requests handled one at a time by a process whose chat buffers were
\* filled by earlier turns.
InitWarm ==
    /\ InitConcurrent
    /\ conversation_history = WarmHistory
    /\ last_mentioned_events = WarmMentions

SpecWarm == InitWarm /\ [][Next]_vars

\* ================================================== a table of two users
\* Rows a second user persisted in earlier runs.
SharedRows ==
    << Ev(3, <<"m">>, DayStart(1), DayEnd(1), "u2", "e2"),
       Ev(4, <<"S", " ", "m">>, DayStart(NumDays), DayEnd(NumDays), "u2", "e2") >>

\* Module import with a remote table that holds the rows of both users:
\* every row is loaded into `events`.
InitShared ==
    /\ configured = TRUE
    /\ remote = StoredRows \o SharedRows
    /\ events = [ i \in 1..Len(remote) |-> LoadedFromRow(remote[i]) ]
    /\ nextId = Len(remote) + 1
    /\ req = Req("init", "none", NoEvent, Absent, NoUser, NoUser)
    /\ resp = Resp(200, NoMsg, NoEvent, << >>, Absent, Absent)
    /\ calls = << >>
    /\ live = {}
    /\ gone = {}
    /\ ops = 0
    /\ conversation_history = << >>
    /\ last_mentioned_events = << >>
    /\ llm_calls = 0
    /\ threads = [ t \in Workers |-> Idle ]

SpecShared == InitShared /\ [][Next]_vars

\* ================================================================ claims
IsChat(action) == req.op = "chat" /\ req.action = action

NoDuplicateIds(s) ==
    \A i, j \in DOMAIN s : i # j => s[i].id # s[j].id

\* C1: every event inserted by a create request and not deleted since is
\* among the events an unfiltered GET /api/events returns.
C1_CreatedEventsAreListed ==
    (req.op = "list" /\ req.user = NoUser) => live \subseteq Ids(resp.events)

\* C2: no two events of the local list, and no two rows of the remote
\* table, have the same id.
C2_IdsAreUnique == NoDuplicateIds(events) /\ NoDuplicateIds(remote)

\* The target of the reschedule turn that just ran keeps its place, id,
\* start and end.
TargetKeepsSchedule ==
    LET i == FirstWithId(remote, resp'.target)
    IN  /\ i # 0
        /\ i <= Len(remote')
        /\ remote'[i].id = remote[i].id
        /\ remote'[i].start = remote[i].start
        /\ remote'[i].end = remote[i].end

TargetIsTombstoned ==
    \E i \in DOMAIN remote :
        /\ remote[i].id = resp.target
        /\ remote[i].isDeleted
        /\ remote[i].isRescheduled

ReplacementExists ==
    \E j \in DOMAIN remote :
        /\ remote[j].id # resp.target
        /\ remote[j].rescheduledFrom = resp.target
        /\ remote[j].start = req.event.start
        /\ remote[j].end = req.event.end

RescheduleResolved == IsChat("reschedule") /\ resp.target # Absent

\* C3: whenever a chat reschedule turn resolves a target, the target keeps
\* id, start and end, is marked deleted and rescheduled, and a replacement
\* with a different id, the new start/end and rescheduledFrom = target id
\* is in the table.
C3_RescheduleTombstonesAndInserts ==
    [][ RescheduleResolved' =>
          (TargetKeepsSchedule /\ TargetIsTombstoned' /\ ReplacementExists') ]_vars

\* C4: after a chat reschedule turn that resolved a target has returned,
\* the target is tombstoned exactly if its replacement exists.
C4_RescheduleIsAllOrNothing ==
    (RescheduleResolved /\ resp.status = 200) =>
        (TargetIsTombstoned <=> ReplacementExists)

\* C5: a chat delete or reschedule turn whose lookup ran and matched no
\* stored event answers with the not-found message naming the searched
\* title and changes neither the remote table nor the local list.
C5_NotFoundChangesNothing ==
    [][ ( /\ req'.op = "chat"
          /\ resp'.status = 200
          /\ \/ /\ req'.action = "delete"
                /\ req'.event.title # NoTitle
                /\ \A i \in DOMAIN remote :
                      ~DeleteMatches(remote[i], req'.user, req'.event.title,
                                     req'.event.start)
             \/ /\ req'.action = "reschedule"
                /\ MissingReschedule(req'.event, req'.originalStart) = {}
                /\ resp'.target = Absent )
        => ( /\ resp'.msg = Msg("not_found", req'.event.title, {})
             /\ remote' = remote
             /\ events' = events ) ]_vars

C5_Witness ==
    /\ req.op = "chat"
    /\ req.action \in {"delete", "reschedule"}
    /\ resp.msg.kind = "not_found"
    /\ resp.msg.title = req.event.title
    /\ remote # << >>
    /\ events # << >>

\* C6: a chat delete turn that found its target removes exactly one row.
C6_ChatDeleteRemovesOne ==
    [][ (req'.op = "chat" /\ req'.action = "delete" /\ resp'.event.id = DeletedId)
        => Len(remote') = Len(remote) - 1 ]_vars

\* C7: no listing returns an event whose delete succeeded.
C7_DeletedEventsAreNotListed ==
    req.op = "list" => Ids(resp.events) \cap gone = {}

\* C8: a chat create intent that lacks title, start or end is answered with
\* the missing-fields message naming each absent field and adds no event to
\* the remote table or to the local list.
C8_IncompleteCreateChangesNothing ==
    [][ ( /\ req'.op = "chat"
          /\ req'.action = "create"
          /\ MissingFields(req'.event) \cap {"title", "start", "end"} # {} )
        => ( /\ resp'.msg.kind = "missing_create"
             /\ MissingFields(req'.event) \cap {"title", "start", "end"}
                   \subseteq resp'.msg.fields
             /\ remote' = remote
             /\ events' = events ) ]_vars

\* C9: a chat reschedule intent that lacks title, originalStart, start or
\* end is answered with the missing-fields message naming exactly the absent
\* fields; no lookup, update or insert is issued and the stores are unchanged.
C9_IncompleteRescheduleShortCircuits ==
    [][ ( /\ req'.op = "chat"
          /\ req'.action = "reschedule"
          /\ MissingReschedule(req'.event, req'.originalStart) # {} )
        => ( /\ resp'.msg = Msg("missing_reschedule", NoTitle,
                                MissingReschedule(req'.event, req'.originalStart))
             /\ \A k \in DOMAIN calls' : calls'[k] = "probe"
             /\ remote' = remote
             /\ events' = events ) ]_vars

\* C10: every chat turn returns a response message, also when the remote
\* store is not configured or a remote call raises.
C10_ChatTurnAlwaysAnswers ==
    req.op = "chat" => (resp.status = 200 /\ resp.msg.kind # "none")

BuffersUnchanged ==
    /\ conversation_history' = conversation_history
    /\ last_mentioned_events' = last_mentioned_events

StoresUnchanged == remote' = remote /\ events' = events

\* C11: a chat turn whose reply does not parse answers with the
\* invalid-response message and no event, and leaves the remote table, the
\* local list, the conversation history and the recent-events window as
\* they were.
C11_ParseFailureChangesNothing ==
    [][ (req'.op = "chat" /\ resp'.msg.kind = "invalid_response")
        => ( /\ resp'.status = 200
             /\ resp'.event = NoEvent
             /\ StoresUnchanged
             /\ BuffersUnchanged ) ]_vars

C11_Witness ==
    /\ req.op = "chat"
    /\ resp.msg.kind = "invalid_response"
    /\ conversation_history # << >>
    /\ last_mentioned_events # << >>

\* C12: no chat turn calls the language model more than once, and a turn
\* whose call raised answers with an error message and no event and leaves
\* the stores, the history and the window as they were.
C12_LlmFailureIsCaught ==
    [][ req'.op = "chat"
        => ( /\ llm_calls' <= 1
             /\ resp'.msg.kind = "llm_error"
                   => ( /\ resp'.status = 200
                        /\ resp'.event = NoEvent
                        /\ StoresUnchanged
                        /\ BuffersUnchanged ) ) ]_vars

C12_Witness ==
    /\ req.op = "chat"
    /\ resp.msg.kind = "llm_error"
    /\ llm_calls = 1
    /\ conversation_history # << >>

IdSeq(s) == [ i \in DOMAIN s |-> s[i].id ]

\* The ids of the events of s a listing filtered by u shows when events
\* without an owner are shown to everyone.
VisibleTo(s, u) ==
    IdSeq(SelectSeq(s, LAMBDA e : e.user_id = u \/ e.user_id = NoUser))

\* The ids of the events of s whose owner is u.
OwnedIn(s, u) == IdSeq(SelectSeq(s, LAMBDA e : e.user_id = u))

IsFilteredList == req.op = "list" /\ req.user # NoUser

\* C13: a listing filtered by U returns exactly the stored events (of the
\* remote table or of the local list) owned by U or by nobody.
C13_ListShowsOwnedAndUnowned ==
    [][ IsFilteredList'
        => \/ IdSeq(resp'.events) = VisibleTo(remote, req'.user)
           \/ IdSeq(resp'.events) = VisibleTo(events, req'.user) ]_vars

\* C13 (amended): a listing filtered by U returns exactly the events owned
\* by U of the store it is served from; events owned by nobody or by
\* another user are not returned.
C13_ListShowsOwnedOnly ==
    [][ IsFilteredList'
        => /\ \A i \in DOMAIN resp'.events :
                  resp'.events[i].user_id = req'.user
           /\ \/ IdSeq(resp'.events) = OwnedIn(remote, req'.user)
              \/ IdSeq(resp'.events) = OwnedIn(events, req'.user) ]_vars

C13_Witness ==
    /\ IsFilteredList
    /\ resp.events # << >>
    /\ \E i \in DOMAIN events : events[i].user_id = NoUser

IsUpdated == req.op = "update" /\ resp.status = 200

\* The update kept the length of s, the id at every position, and every
\* element whose id is not the updated one.
InPlace(s, t, id) ==
    /\ Len(t) = Len(s)
    /\ \A i \in DOMAIN s :
          /\ t[i].id = s[i].id
          /\ s[i].id # id => t[i] = s[i]

ScheduleChanged(s, e) ==
    \E i \in DOMAIN s :
        s[i].id = e.id /\ (s[i].start # e.start \/ s[i].end # e.end)

\* C14: a successful PUT updates in place (same id, same position, same
\* number of events, other events untouched) and, when start or end
\* changed, returns an event that carries a rescheduledFrom snapshot.
C14_UpdateSnapshotsSchedule ==
    [][ IsUpdated'
        => /\ InPlace(events, events', req'.event.id)
           /\ InPlace(remote, remote', req'.event.id)
           /\ (ScheduleChanged(events, req'.event)
                 \/ ScheduleChanged(remote, req'.event))
                => resp'.event.rescheduledFrom # Absent ]_vars

\* C14 (amended): a successful PUT updates in place, the first local entry
\* with the id becomes the request body, a remote row with the id is left
\* alone or takes the body's title, start and end, and the returned event is
\* the request body: nothing adds a rescheduledFrom snapshot.
C14_UpdateIsInPlace ==
    [][ IsUpdated'
        => /\ InPlace(events, events', req'.event.id)
           /\ InPlace(remote, remote', req'.event.id)
           /\ FirstWithId(events, req'.event.id) # 0
                => events'[FirstWithId(events, req'.event.id)] = req'.event
           /\ \A k \in DOMAIN remote :
                 remote[k].id = req'.event.id
                 => \/ remote'[k] = remote[k]
                    \/ /\ remote'[k].title = req'.event.title
                       /\ remote'[k].start = req'.event.start
                       /\ remote'[k].end = req'.event.end
           /\ resp'.event = req'.event
           /\ resp'.event.rescheduledFrom = Absent ]_vars

C14_Witness ==
    /\ IsUpdated
    /\ Len(events) > 1
    /\ \E i \in DOMAIN events : events[i] = req.event
    /\ \E k \in DOMAIN remote :
          /\ remote[k].id = req.event.id
          /\ remote[k].start = req.event.start
          /\ remote[k].start # StoredRows[1].start

Others(s, id) == SelectSeq(s, LAMBDA e : e.id # id)

\* C15: DELETE /api/events/<id> of an id the local list or the remote table
\* holds answers 200 with that event and leaves no event with the id in
\* either store and every other event in place; of an id neither holds it
\* answers 404 and changes nothing.
C15_DeleteByIdRemovesOrReports ==
    [][ req'.op = "delete"
        => IF req'.event.id \in Ids(events) \cup Ids(remote)
           THEN /\ resp'.status = 200
                /\ resp'.event.id = req'.event.id
                /\ req'.event.id \notin Ids(events') \cup Ids(remote')
                /\ Others(events', req'.event.id) = Others(events, req'.event.id)
                /\ Others(remote', req'.event.id) = Others(remote, req'.event.id)
           ELSE /\ resp'.status = 404
                /\ StoresUnchanged ]_vars

\* C17: GET /api/health answers 200 with status "ok" whatever the remote
\* client does, and changes no state.
C17_HealthAlwaysOk ==
    [][ req'.op = "health"
        => /\ resp'.status = 200
           /\ resp'.msg.kind = "ok"
           /\ StoresUnchanged
           /\ BuffersUnchanged
           /\ nextId' = nextId
           /\ configured' = configured ]_vars

C17_Witness ==
    /\ req.op = "health"
    /\ configured
    /\ resp.msg.fields = {"error"}
    /\ events # << >>

\* --------------------------------------------- resolution of the target
\* The reschedule turn that just ran got an answer to its select.
RescheduleLookedUp ==
    /\ IsChat("reschedule")
    /\ resp.status = 200
    /\ Len(calls) >= 2
    /\ calls[2] = "select"

\* The delete turn that just ran got an answer to its delete query.
DeleteLookedUp ==
    /\ IsChat("delete")
    /\ resp.status = 200
    /\ Len(calls) >= 2
    /\ calls[2] = "delete"

Mine(r, u) == r.user_id = u /\ ~r.isDeleted

InWindow(r, d) == r.start <= DayEnd(d) /\ r.end >= DayStart(d)

SameTitle(r, hint) == Lower(r.title) = Lower(hint)

\* The number of lower-case hint words that occur in the lower-cased title.
Overlap(title, hint) ==
    LET words == Split(Lower(hint))
    IN  Cardinality({ i \in DOMAIN words : IsSubstr(words[i], Lower(title)) })

Removed == Ids(remote) \ Ids(remote')

\* C18: when a live event of the caller has the hint's title (ignoring
\* case), a reschedule resolves the first such event and a delete removes
\* exactly that event.
C18_ExactTitleFirst ==
    [][ LET exact == SelectSeq(remote, LAMBDA r :
                        Mine(r, req'.user) /\ SameTitle(r, req'.event.title))
        IN  exact # << >>
            => /\ RescheduleLookedUp' => resp'.target = exact[1].id
               /\ DeleteLookedUp' => Removed = { exact[1].id } ]_vars

\* C18 (amended): there is no exact-title stage.  A reschedule resolves
\* only among the caller's live events that overlap the day of
\* originalStart, and when one of them has the hint's title the target is
\* the first of them whose title contains every hint word; a delete
\* removes every event of the caller whose title contains the hint (on the
\* hint's day when it has one), the exactly-titled ones included.
C18_DateWindowFirst ==
    [][ LET d == DatePart(req'.originalStart)
            cands == SelectSeq(remote, LAMBDA r :
                        Mine(r, req'.user) /\ InWindow(r, d))
            full(r) == Overlap(r.title, req'.event.title)
                          = Len(Split(Lower(req'.event.title)))
        IN  /\ (RescheduleLookedUp' /\ resp'.target # Absent)
                => \E i \in DOMAIN cands : cands[i].id = resp'.target
            /\ (RescheduleLookedUp'
                  /\ \E i \in DOMAIN cands : SameTitle(cands[i], req'.event.title))
                => \E i \in DOMAIN cands :
                      /\ cands[i].id = resp'.target
                      /\ full(cands[i])
                      /\ \A j \in 1..(i - 1) : ~full(cands[j])
            /\ DeleteLookedUp'
                => \A k \in DOMAIN remote :
                      ( /\ remote[k].user_id = req'.user
                        /\ SameTitle(remote[k], req'.event.title)
                        /\ req'.event.start # Absent
                              => DatePart(remote[k].start)
                                    = DatePart(req'.event.start) )
                      => remote[k].id \in Removed ]_vars

C18_Witness ==
    /\ RescheduleLookedUp
    /\ resp.target # Absent
    /\ \E k \in DOMAIN remote :
          /\ remote[k].id # resp.target
          /\ Mine(remote[k], req.user)
          /\ InWindow(remote[k], DatePart(req.originalStart))
          /\ SameTitle(remote[k], req.event.title)
          /\ remote[k].rescheduledFrom = Absent

OnThatDay(d) ==
    SelectSeq(remote, LAMBDA r : Mine(r, req'.user) /\ DatePart(r.start) = d)

\* C20: when the hint carries a date and no event of the date window
\* matches the hint's title, the first event of that day is resolved: a
\* reschedule targets it, a delete removes it.
C20_DateOnlyFallback ==
    [][ /\ ( /\ RescheduleLookedUp'
             /\ OnThatDay(DatePart(req'.originalStart)) # << >>
             /\ \A k \in DOMAIN remote :
                   OnDay(remote[k], req'.user, DatePart(req'.originalStart))
                   => Overlap(remote[k].title, req'.event.title) = 0 )
           => resp'.target = OnThatDay(DatePart(req'.originalStart))[1].id
        /\ ( /\ DeleteLookedUp'
             /\ req'.event.start # Absent
             /\ OnThatDay(DatePart(req'.event.start)) # << >>
             /\ \A k \in DOMAIN remote :
                   ~DeleteMatches(remote[k], req'.user, req'.event.title,
                                  req'.event.start) )
           => Removed = { OnThatDay(DatePart(req'.event.start))[1].id } ]_vars

\* C20 (amended): there is no date-only fallback.  When no event of the
\* date window matches the hint's title, nothing is resolved whatever
\* events lie on that day: the turn answers not-found and the stores are
\* unchanged.
C20_NoDateOnlyFallback ==
    [][ /\ ( /\ RescheduleLookedUp'
             /\ \A k \in DOMAIN remote :
                   ( Mine(remote[k], req'.user)
                     /\ InWindow(remote[k], DatePart(req'.originalStart)) )
                   => Overlap(remote[k].title, req'.event.title) = 0 )
           => ( /\ resp'.target = Absent
                /\ resp'.msg = Msg("not_found", req'.event.title, {})
                /\ StoresUnchanged )
        /\ ( /\ DeleteLookedUp'
             /\ req'.event.start # Absent
             /\ \A k \in DOMAIN remote :
                   ( /\ remote[k].user_id = req'.user
                     /\ DatePart(remote[k].start) = DatePart(req'.event.start) )
                   => ~ILike(remote[k].title, req'.event.title) )
           => ( /\ resp'.msg = Msg("not_found", req'.event.title, {})
                /\ StoresUnchanged ) ]_vars

C20_Witness ==
    /\ RescheduleLookedUp
    /\ resp.msg.kind = "not_found"
    /\ \E k \in DOMAIN remote :
          /\ Mine(remote[k], req.user)
          /\ InWindow(remote[k], DatePart(req.originalStart))

AllDone == \A t \in Workers : threads[t].pc = "done"

Elements(s) == { s[i] : i \in DOMAIN s }

\* C16: when every concurrent request has returned, each created event
\* that reached the remote table (one that did not is dropped by a refresh
\* that runs after the create as well) is in the local list, and each chat
\* turn's event is in the recent-events window and its two messages are in
\* the conversation history.
C16_NoLostUpdate ==
    AllDone
    => \A t \in Workers :
          /\ (threads[t].op = "create" /\ threads[t].event.id \in Ids(remote))
                => threads[t].event.id \in Ids(events)
          /\ threads[t].op = "chat"
                => /\ threads[t].event.id \in Elements(last_mentioned_events)
                   /\ Elements(Exchange(t)) \subseteq Elements(conversation_history)

\* The caller's rows whose title contains the hint of the delete intent.
TitleHits(r) == r.user_id = req'.user /\ ILike(r.title, req'.event.title)

DatedDelete == DeleteLookedUp /\ req.event.start # Absent

\* C21: the date window is the set of events whose [start, end] interval
\* overlaps the day: a delete with a date removes the title matches that
\* overlap the day of start, and a reschedule resolves a target that
\* overlaps the day of originalStart.
C21_WindowIsOverlap ==
    [][ /\ DatedDelete'
           => Removed = { remote[k].id : k \in
                            { j \in DOMAIN remote :
                                /\ TitleHits(remote[j])
                                /\ InWindow(remote[j],
                                            DatePart(req'.event.start)) } }
        /\ (RescheduleLookedUp' /\ resp'.target # Absent)
           => \E k \in DOMAIN remote :
                 /\ remote[k].id = resp'.target
                 /\ InWindow(remote[k], DatePart(req'.originalStart)) ]_vars

\* C21 (amended): the two windows differ.  A reschedule resolves among the
\* events that overlap the day of originalStart, one that began on an
\* earlier day and is still running included; a delete with a date removes
\* the title matches whose start lies on the day of start, so an event that
\* began on an earlier day is not a candidate.
C21_DeleteWindowIsStartDay ==
    [][ /\ DatedDelete'
           => Removed = { remote[k].id : k \in
                            { j \in DOMAIN remote :
                                /\ TitleHits(remote[j])
                                /\ DatePart(remote[j].start)
                                      = DatePart(req'.event.start) } }
        /\ RescheduleLookedUp'
           => /\ resp'.target # Absent
                 => \E k \in DOMAIN remote :
                       /\ remote[k].id = resp'.target
                       /\ InWindow(remote[k], DatePart(req'.originalStart))
              /\ ( \E k \in DOMAIN remote :
                      /\ Mine(remote[k], req'.user)
                      /\ InWindow(remote[k], DatePart(req'.originalStart))
                      /\ Overlap(remote[k].title, req'.event.title) > 0 )
                 => resp'.target # Absent ]_vars

C21_Witness ==
    /\ DatedDelete
    /\ \E k \in DOMAIN remote :
          /\ remote[k].user_id = req.user
          /\ ILike(remote[k].title, req.event.title)
          /\ DatePart(remote[k].start) < DatePart(req.event.start)
          /\ InWindow(remote[k], DatePart(req.event.start))

RescheduleDone ==
    IsChat("reschedule") /\ resp.status = 200 /\ resp.newId # Absent

\* C22: the event a reschedule inserts has the title of the stored event it
\* resolved, not the title of the intent.
C22_ReplacementKeepsStoredTitle ==
    [][ RescheduleDone'
        => \E i \in DOMAIN remote, j \in DOMAIN remote' :
              /\ remote[i].id = resp'.target
              /\ remote'[j].id = resp'.newId
              /\ j > Len(remote)
              /\ remote'[j].title = remote[i].title
              /\ resp'.event.title = remote[i].title ]_vars

C22_Witness ==
    /\ RescheduleDone
    /\ \E j \in DOMAIN remote :
          /\ remote[j].id = resp.newId
          /\ remote[j].title # req.event.title
          /\ Lower(remote[j].title) # Lower(req.event.title)

\* ----------------------------------------------------------------- C24
Min(a, b) == IF a <= b THEN a ELSE b

\* s is the last Len(s) entries of full, in the same order.
IsSuffix(s, full) ==
    /\ Len(s) <= Len(full)
    /\ \A i \in 1..Len(s) : s[i] = full[Len(full) - Len(s) + i]

\* The request was a chat turn whose model reply parsed: it carried an
\* event, or it was relayed as the model's own message.
ReplyParsed ==
    /\ req.op = "chat"
    /\ (req.event # NoEvent \/ resp.msg.kind = "llm")

\* C24: after every chat turn the conversation history holds at most 20
\* entries, and a turn that records its exchange leaves the most recent
\* entries in their original order: the oldest ones are evicted first.
C24_HistoryIsBoundedFifo ==
    [][ /\ Len(conversation_history') <= max_history
        /\ ReplyParsed' =>
              LET full == conversation_history \o Exchange(ops')
              IN  /\ Len(conversation_history') = Min(Len(full), max_history)
                  /\ IsSuffix(conversation_history', full) ]_vars

\* A turn was recorded in a full history: the oldest exchange is gone.
C24_Witness ==
    /\ ReplyParsed
    /\ Len(conversation_history) = max_history
    /\ conversation_history[max_history] = << "assistant", ops >>
    /\ conversation_history[1] = WarmHistory[3]

\* ----------------------------------------------------------------- C25
\* C25: after every chat turn the recent-events window holds at most 3
\* events, and a turn that mentions an event leaves the 3 most recently
\* mentioned ones in order of mention: the oldest one is evicted first.
C25_WindowIsLastThree ==
    [][ /\ Len(last_mentioned_events') <= max_mentioned
        /\ (req'.op = "chat" /\ req'.event # NoEvent) =>
              LET full == Append(last_mentioned_events, req'.event.id)
              IN  /\ Len(last_mentioned_events') = Min(Len(full), max_mentioned)
                  /\ IsSuffix(last_mentioned_events', full)
        /\ ~(req'.op = "chat" /\ req'.event # NoEvent) =>
              last_mentioned_events' = last_mentioned_events ]_vars

\* An event was mentioned with a full window: the oldest id is gone.
C25_Witness ==
    /\ req.op = "chat"
    /\ req.event # NoEvent
    /\ last_mentioned_events
         = << WarmMentions[2], WarmMentions[3], req.event.id >>

\* ----------------------------------------------------------------- C26
\* The calls a list request made after the client was obtained.
ListAttempts == IF configured THEN Tail(calls) ELSE << >>

AllAttemptsFailed ==
    /\ ListAttempts # << >>
    /\ \A i \in DOMAIN ListAttempts : ListAttempts[i] = "select_raised"

\* C26: a remote read of the list route is tried once and retried at most
\* max_retries times, no call follows one that succeeded and the loop does
\* not give up before the bound; when every attempt failed the request
\* still answers 200 with events of the local list, which it leaves alone.
C26_ReadRetryIsBounded ==
    [][ req'.op = "list" =>
          /\ Len(ListAttempts') <= max_retries + 1
          /\ configured => ListAttempts' # << >>
          /\ \A i \in DOMAIN ListAttempts' :
                /\ ListAttempts'[i] \in { "select", "select_raised" }
                /\ ListAttempts'[i] = "select" => i = Len(ListAttempts')
          /\ AllAttemptsFailed' =>
                /\ Len(ListAttempts') = max_retries + 1
                /\ resp'.status = 200
                /\ events' = events
                /\ resp'.events =
                      IF req'.user = NoUser THEN events
                      ELSE SelectSeq(events, LAMBDA e : e.user_id = req'.user) ]_vars

\* Every attempt of a list request failed and the local list, which holds
\* events, was returned.
C26_Witness ==
    /\ req.op = "list"
    /\ AllAttemptsFailed
    /\ Len(ListAttempts) = max_retries + 1
    /\ resp.events # << >>
    /\ resp.status = 200

\* ----------------------------------------------------------------- C27
\* C27: POST /api/events appends the event to the local list exactly once
\* and answers 201, whether the remote insert succeeded, returned no data,
\* was skipped for missing fields, raised, or there is no remote store.
C27_CreateAppendsOnce ==
    [][ req'.op = "create" =>
          /\ resp'.status = 201
          /\ events' = Append(events, req'.event) ]_vars

\* A POST whose remote insert succeeded: the row is stored and the local
\* list gained one element, the event.
C27_Witness ==
    /\ req.op = "create"
    /\ resp.status = 201
    /\ calls = << "probe", "insert" >>
    /\ req.event.id \in Ids(remote)
    /\ events # << >>
    /\ events[Len(events)] = req.event

\* ----------------------------------------------------------------- C28
\* The cached events of users other than u, in cache order.
CachedOfOthers(cache, u) ==
    SelectSeq(cache, LAMBDA e : e.user_id # NoUser /\ e.user_id # u)

\* The list request read the remote table and got rows back.
Refreshed ==
    /\ req.op = "list"
    /\ calls # << >>
    /\ calls[Len(calls)] = "select"
    /\ resp.events # << >>

\* C28: a GET /api/events?user_id=U that refreshes the local cache leaves
\* every cached event whose user_id is set and differs from U unchanged,
\* in content and in relative order.
C28_RefreshKeepsOtherUsers ==
    [][ (IsFilteredList' /\ Refreshed') =>
          CachedOfOthers(events', req'.user) = CachedOfOthers(events, req'.user)
      ]_vars

\* A refresh for u1 ran over a cache that holds two events of u2 and
\* events of u1: the events of u2 now lead the list.
C28_Witness ==
    /\ IsFilteredList
    /\ Refreshed
    /\ Len(CachedOfOthers(events, req.user)) >= 2
    /\ events[1].user_id = "u2"
    /\ \E i \in DOMAIN events : events[i].user_id = req.user

\* ----------------------------------------------------------------- C29
RescheduleTurn == req.op = "chat" /\ req.action = "reschedule"

\* C29: in a chat reschedule the insert of the replacement is issued only
\* after the tombstone update returned without raising; when the update
\* raises no insert is issued, neither store changes and the turn answers
\* with the reschedule error message.
C29_InsertFollowsTombstone ==
    [][ RescheduleTurn' =>
          /\ \A i \in DOMAIN calls' :
                calls'[i] = "insert" => (i > 1 /\ calls'[i - 1] = "update")
          /\ (\E i \in DOMAIN calls' : calls'[i] = "update_raised") =>
                /\ \A i \in DOMAIN calls' : calls'[i] # "insert"
                /\ remote' = remote
                /\ events' = events
                /\ resp'.status = 200
                /\ resp'.msg.kind = "reschedule_error"
                /\ resp'.newId = Absent ]_vars

\* The lookup of a reschedule resolved a stored event and the tombstone
\* update raised: the turn ended there with its target still live.
C29_Witness ==
    /\ RescheduleTurn
    /\ calls = << "probe", "select", "update_raised" >>
    /\ resp.target \in Ids(remote)
    /\ \A i \in DOMAIN remote : ~remote[i].isDeleted
    /\ resp.msg.kind = "reschedule_error"

\* ----------------------------------------------------------------- C30
\* No two stored events are replacements of the same original.
OneReplacementPerTarget ==
    \A i, j \in DOMAIN remote :
        (/\ remote[i].rescheduledFrom # Absent
         /\ remote[i].rescheduledFrom = remote[j].rescheduledFrom) => i = j

\* C30: the target a reschedule selects is never an event that was already
\* tombstoned, and so at most one stored event has rescheduledFrom equal to
\* a given id.
C30_TombstonedIsNeverRescheduled ==
    [][ /\ (RescheduleTurn' /\ resp'.target # Absent) =>
              \E i \in DOMAIN remote :
                  remote[i].id = resp'.target /\ ~remote[i].isDeleted
        /\ OneReplacementPerTarget' ]_vars

====
